---- MODULE Spec2Model ----
(***************************************************************************)
(* The Express backend of the Docker web server (src/unnamed/part_000):    *)
(* the middleware chain, the process-wide serverMetrics counters, the      *)
(* route handlers and the events of the Node event loop (request arrival,  *)
(* completion of the docker child process, the response's 'finish' event,  *)
(* the passing of wall-clock time).                                        *)
(*                                                                         *)
(* Time is Date.now() in milliseconds and is taken to be non-decreasing.   *)
(* Math.random() is a rational k / RandDen with 0 <= k < RandDen.          *)
(* A URL path is the sequence of its segments: "/api/status" is            *)
(* <<"api", "status">> and "/" is << >>.                                   *)
(*                                                                         *)
(* The navigation of the page (src/frontend/js/main.js) is a second,       *)
(* independent machine: the DockerWebServer object's menu state and the    *)
(* listeners it registers, one step per event the browser dispatches.      *)
(***************************************************************************)
EXTENDS Integers, Sequences, FiniteSets, Bags, TLC

VARIABLES
    now,            \* Date.now()
    serverMetrics,  \* the global metrics object
    inflight,       \* the bag of requests in flight, each with its handler's position
    accepted,       \* the number of requests received so far
    wire,           \* the response written by the step just taken, Nil when it wrote none
    fnIn,           \* argument of a helper applied in isolation
    fnOut,          \* its result
    ui              \* the page in the browser: the menu state of main.js and the DOM it writes

vars == <<now, serverMetrics, inflight, accepted, wire, fnIn, fnOut, ui>>

-----------------------------------------------------------------------------
(* Bounds of the model *)

MaxRequests == 2
MaxTicks == 2
RandDen == 100

ClockStep == 3 * 60 * 1000
StartTime == 1000
RandDraws == {0, RandDen - 1}

MsPerHour == 1000 * 60 * 60
MsPerMinute == 1000 * 60

Nil == [nil |-> TRUE]

-----------------------------------------------------------------------------
(* Arithmetic of the JavaScript number operations used *)

Max(a, b) == IF a >= b THEN a ELSE b

\* Math.floor(n / d) for n >= 0, d > 0
Floor(n, d) == n \div d

\* Math.round(n / d) for n >= 0, d > 0: to the nearest integer, halves up
Round(n, d) == (2 * n + d) \div (2 * d)

\* Math.floor(Math.random() * range) + base, with Math.random() = k / RandDen
RandomInt(k, range, base) == Floor(k * range, RandDen) + base

\* Number.prototype.toLocaleString(): the digits in groups of three, most
\* significant group first (the separator depends on the locale)
RECURSIVE ToLocaleString(_)
ToLocaleString(n) ==
    IF n < 1000 THEN <<n>> ELSE Append(ToLocaleString(n \div 1000), n % 1000)

\* new Date(ms).toISOString()
ToISOString(ms) == [iso |-> ms]

-----------------------------------------------------------------------------
(* Results of code that may throw: a returned value or a thrown error *)

Return(v) == [threw |-> FALSE, value |-> v]
Throw(msg) == [threw |-> TRUE, message |-> msg]

-----------------------------------------------------------------------------
(* serverMetrics and the request-tracking middleware *)

\* let serverMetrics = { startTime: Date.now(), requestCount: 0, ... }
InitialMetrics(t) ==
    [startTime |-> t, requestCount |-> 0, totalResponseTime |-> 0, responseTimeCount |-> 0]

\* a tracking middleware that leaves the counting to the 'finish' listener
TrackRequestNotCounting(m) == m

\* the middleware body run when the request reaches it: serverMetrics.requestCount++
TrackRequest(m) == [m EXCEPT !.requestCount = @ + 1]

\* a 'finish' listener that subtracts the wrong way round
OnFinishReversed(m, start, t) ==
    [m EXCEPT !.totalResponseTime = @ + (start - t),
              !.responseTimeCount = @ + 1]

\* the res.on('finish') listener: responseTime = Date.now() - start
OnFinish(m, start, t) ==
    [m EXCEPT !.totalResponseTime = @ + (t - start),
              !.responseTimeCount = @ + 1]

-----------------------------------------------------------------------------
(* Helper functions *)

\* an uptime whose minutes are not reduced modulo the hour
getUptimeTotalMinutes(m, t) ==
    LET uptime == t - m.startTime
        hours == Floor(uptime, MsPerHour)
        minutes == Floor(uptime, MsPerMinute)
    IN  IF hours > 0
        THEN [template |-> "{hours}h {minutes}m", hours |-> hours, minutes |-> minutes]
        ELSE [template |-> "{minutes}m", minutes |-> minutes]

\* `${hours}h ${minutes}m` or `${minutes}m`: the template and the numbers put in it
getUptime(m, t) ==
    LET uptime == t - m.startTime
        hours == Floor(uptime, MsPerHour)
        minutes == Floor(uptime % MsPerHour, MsPerMinute)
    IN  IF hours > 0
        THEN [template |-> "{hours}h {minutes}m", hours |-> hours, minutes |-> minutes]
        ELSE [template |-> "{minutes}m", minutes |-> minutes]

\* an average that truncates in place of rounding
getAverageResponseTimeTruncated(m) ==
    IF m.responseTimeCount > 0
    THEN Floor(m.totalResponseTime, m.responseTimeCount)
    ELSE 0

getAverageResponseTime(m) ==
    IF m.responseTimeCount > 0
    THEN Round(m.totalResponseTime, m.responseTimeCount)
    ELSE 0

\* GET /api/status: hoursRunning > 0 ? Math.round(requestCount / hoursRunning) : 0
\* with hoursRunning = elapsed / MsPerHour
StatusRequestsPerHour(requestCount, elapsed) ==
    IF elapsed > 0 THEN Round(requestCount * MsPerHour, elapsed) ELSE 0

\* GET /api/metrics: Math.round(requestCount / Math.max(hoursRunning, 0.1))
MetricsRequestsPerHour(requestCount, elapsed) ==
    Round(requestCount * MsPerHour, Max(elapsed, MsPerHour \div 10))

\* an uptime percentage that adds the random number in place of subtracting it
UptimePercentageTenthsAdded(k) ==
    Round(Max(99 * RandDen, 100 * RandDen + k) * 10, RandDen)

\* Math.round(Math.max(99.0, 100 - Math.random()) * 10) / 10, in tenths of a percent
UptimePercentageTenths(k) ==
    LET hundredMinusR == 100 * RandDen - k          \* (100 - r) * RandDen
        clamped == Max(99 * RandDen, hundredMinusR)
    IN  Round(clamped * 10, RandDen)

-----------------------------------------------------------------------------
(* The docker child process: execAsync resolves with stdout or rejects *)

ExecOk(stdout) == [ok |-> TRUE, stdout |-> stdout]
ExecFail(msg) == [ok |-> FALSE, message |-> msg]

ExecErrors == {"docker: not found"}

\* docker ps --format "table ...": stdout split at '\n'; a line is the sequence of
\* its tab-separated fields, the text after the last newline is the empty line
PsHeader == <<"NAMES", "STATUS">>
EmptyLine == <<"">>
PsOutputs ==
    { <<PsHeader, EmptyLine>>,
      <<PsHeader, <<"web ", "Up 2 hours">>, <<"db   Up 5 minutes">>, EmptyLine>> }

PsOutcomes == {ExecFail(e) : e \in ExecErrors} \cup {ExecOk(o) : o \in PsOutputs}

\* String.prototype.trim() on the field texts above
Trim(s) == IF s = "web " THEN "web" ELSE s

\* line.trim() is the empty string
IsBlank(line) == \A k \in 1..Len(line) : Trim(line[k]) = ""

Undefined == [undefined |-> TRUE]

NotBlank(line) == ~IsBlank(line)

\* line => { const [name, status] = line.split('\t'); return {name: name?.trim(), ...} }
PsContainer(line) ==
    [name |-> Trim(line[1]),
     status |-> IF Len(line) >= 2 THEN Trim(line[2]) ELSE Undefined]

\* the catch branch of checkDockerStatus
DockerDefault == [running |-> FALSE, containerCount |-> 0, containers |-> << >>]

\* the try branch of checkDockerStatus
checkDockerStatusTry(out) ==
    IF ~out.ok THEN Throw(out.message)
    ELSE LET containers == SelectSeq(Tail(out.stdout), NotBlank)
         IN  Return([running |-> Len(containers) > 0,
                     containerCount |-> Len(containers),
                     containers |-> [k \in 1..Len(containers) |-> PsContainer(containers[k])]])

\* a checkDockerStatus without its try/catch
checkDockerStatusNoCatch(out) == checkDockerStatusTry(out)

checkDockerStatus(out) ==
    LET t == checkDockerStatusTry(out)
    IN  IF t.threw THEN Return(DockerDefault) ELSE t

-----------------------------------------------------------------------------
(* Health sampling *)

\* thresholds compared with <= in place of <
HealthyInclusive(cpu, memory, disk) == cpu <= 80 /\ memory <= 85 /\ disk <= 90

\* healthy: cpu < 80 && memory < 85 && disk < 90
Healthy(cpu, memory, disk) == cpu < 80 /\ memory < 85 /\ disk < 90

\* the object built in the try branch of getSystemHealth from the three readings
HealthSample(cpu, memory, disk, t) ==
    [healthy |-> Healthy(cpu, memory, disk),
     cpu |-> cpu, memory |-> memory, disk |-> disk,
     timestamp |-> ToISOString(t)]

\* the object built in the catch branch of getSystemHealth
HealthFailure(msg, t) ==
    [healthy |-> FALSE, error |-> msg, timestamp |-> ToISOString(t)]

\* the try/catch of getSystemHealth around a reading that returns or throws
HealthOf(reading, t) ==
    IF reading.threw
    THEN Return(HealthFailure(reading.message, t))
    ELSE Return(HealthSample(reading.value.cpu, reading.value.memory,
                             reading.value.disk, t))

\* simulated readings whose cpu figure ranges over 0..99
SimulatedReadingWide(k1, k2, k3) ==
    Return([cpu |-> RandomInt(k1, 100, 0),
            memory |-> RandomInt(k2, 40, 30),
            disk |-> RandomInt(k3, 20, 20)])

\* the simulated readings: three draws of Math.random()
SimulatedReading(k1, k2, k3) ==
    Return([cpu |-> RandomInt(k1, 30, 10),
            memory |-> RandomInt(k2, 40, 30),
            disk |-> RandomInt(k3, 20, 20)])

getSystemHealth(k1, k2, k3, t) == HealthOf(SimulatedReading(k1, k2, k3), t)

-----------------------------------------------------------------------------
(* Responses and the bodies the handlers build *)

Response(code, ctype, body) == [code |-> code, ctype |-> ctype, body |-> body]

\* res.status(code).json(body)
Json(code, body) == Response(code, "application/json", body)

\* obj.field of a JavaScript object: undefined when the object has no such field
Field(obj, name) == IF name \in DOMAIN obj THEN obj[name] ELSE Undefined

\* a GET /health whose status code ignores the sample
HealthResponseAlwaysOk(health) ==
    Json(200,
         [status |-> IF health.healthy THEN "healthy" ELSE "unhealthy",
          timestamp |-> health.timestamp,
          details |-> health])

\* GET /health
HealthResponse(health) ==
    Json(IF health.healthy THEN 200 ELSE 503,
         [status |-> IF health.healthy THEN "healthy" ELSE "unhealthy",
          timestamp |-> health.timestamp,
          details |-> health])

\* GET /health: the responses the handler writes, none when the awaited
\* getSystemHealth() rejects
HealthHandler(health) ==
    IF health.threw THEN << >> ELSE <<HealthResponse(health.value)>>

\* GET /api/status
StatusResponse(dockerStatus, health, m, t) ==
    LET elapsed == t - m.startTime
        requestsPerHour == StatusRequestsPerHour(m.requestCount, elapsed)
    IN  Json(200,
             [server |-> [status |-> "online", version |-> "1.0.0",
                          uptime |-> getUptime(m, t)],
              services |->
                 [webServer |-> [status |-> "online",
                                 responseTime |-> getAverageResponseTime(m)],
                  docker |-> [status |-> IF dockerStatus.running THEN "online" ELSE "offline",
                              containers |-> dockerStatus.containerCount],
                  healthCheck |-> [status |-> IF health.healthy THEN "online" ELSE "degraded",
                                   lastCheck |-> health.timestamp],
                  ssl |-> [status |-> "online", certificate |-> "valid"]],
              metrics |-> [uptime |-> getUptime(m, t),
                           responseTime |-> [ms |-> getAverageResponseTime(m)],
                           requestsPerHour |-> ToLocaleString(requestsPerHour)],
              timestamp |-> ToISOString(t)])

\* GET /api/metrics
MetricsResponse(health, dockerStatus, m, t, k) ==
    LET uptimeMs == t - m.startTime
    IN  Json(200,
             [uptime |-> [percentageTenths |-> UptimePercentageTenths(k),
                          duration |-> getUptime(m, t),
                          startTime |-> ToISOString(m.startTime)],
              performance |->
                 [averageResponseTime |-> getAverageResponseTime(m),
                  requestCount |-> m.requestCount,
                  requestsPerHour |-> MetricsRequestsPerHour(m.requestCount, uptimeMs)],
              system |-> [cpu |-> Field(health, "cpu"), memory |-> Field(health, "memory"),
                          disk |-> Field(health, "disk"), healthy |-> health.healthy],
              docker |-> [status |-> IF dockerStatus.running THEN "running" ELSE "stopped",
                          containerCount |-> dockerStatus.containerCount,
                          containers |-> dockerStatus.containers],
              timestamp |-> ToISOString(t)])

\* docker ps -a --format "{{json .}}": a line of stdout is blank, a JSON text or
\* something JSON.parse rejects
BlankLine == [kind |-> "blank"]
BadLine == [kind |-> "text"]
JsonLine(v) == [kind |-> "json", value |-> v]
JsonNull == [type |-> "null"]
Container(name, state) == [type |-> "object", Names |-> name, State |-> state]

PsAOutputs ==
    { <<BlankLine>>,
      <<JsonLine(Container("web", "running")), JsonLine(Container("db", "exited")), BlankLine>>,
      <<JsonLine(Container("web", "running")), JsonLine(Container("db", "running")), BlankLine>>,
      <<JsonLine(Container("web", "running")), BadLine, BlankLine>>,
      <<JsonLine(JsonNull), BlankLine>> }

PsAOutcomes == {ExecFail(e) : e \in ExecErrors} \cup {ExecOk(o) : o \in PsAOutputs}

LineNotBlank(line) == line.kind # "blank"
IsRunning(c) == c.State = "running"

\* the try block of GET /api/containers: what it has written when it ends, and
\* whether it ended by throwing
ContainersTry(out, t) ==
    IF ~out.ok THEN [written |-> << >>, threw |-> TRUE, message |-> out.message]
    ELSE
    LET lines == SelectSeq(out.stdout, LineNotBlank)
    IN  IF \E k \in 1..Len(lines) : lines[k].kind = "text"
        THEN [written |-> << >>, threw |-> TRUE, message |-> "Unexpected token"]
        ELSE
        LET containers == [k \in 1..Len(lines) |-> lines[k].value]
        IN  IF \E k \in 1..Len(containers) : containers[k].type = "null"
            THEN [written |-> << >>, threw |-> TRUE,
                  message |-> "Cannot read properties of null"]
            ELSE [written |->
                    << Json(200, [containers |-> containers,
                                  total |-> Len(containers),
                                  running |-> Len(SelectSeq(containers, IsRunning)),
                                  timestamp |-> ToISOString(t)]) >>,
                  threw |-> FALSE]

\* a GET /api/containers without its catch block
ContainersHandlerNoCatch(out, t) == ContainersTry(out, t).written

\* GET /api/containers: the responses written by the try block and the catch block
ContainersHandler(out, t) ==
    LET try == ContainersTry(out, t)
    IN  IF try.threw
        THEN try.written \o
             << Json(500, [error |-> "Failed to fetch containers",
                           message |-> try.message,
                           timestamp |-> ToISOString(t)]) >>
        ELSE try.written

\* GET /api/system
SystemHandler(health, m, t) ==
    IF health.threw
    THEN << Json(500, [error |-> "Failed to fetch system information",
                       message |-> health.message,
                       timestamp |-> ToISOString(t)]) >>
    ELSE << Json(200, [os |-> "process.platform", arch |-> "process.arch",
                       nodeVersion |-> "process.version",
                       serverUptime |-> getUptime(m, t),
                       resources |-> [cpu |-> Field(health.value, "cpu"),
                                      memory |-> Field(health.value, "memory"),
                                      disk |-> Field(health.value, "disk")],
                       timestamp |-> ToISOString(t)]) >>

\* an error handler that hides the message in production only
ErrorHandlerUnlessProduction(err, env, t) ==
    Json(500, [error |-> "Internal Server Error",
               message |-> IF env # "production" THEN err.message
                           ELSE "Something went wrong!",
               timestamp |-> ToISOString(t)])

\* the error-handling middleware
ErrorHandler(err, env, t) ==
    Json(500, [error |-> "Internal Server Error",
               message |-> IF env = "development" THEN err.message
                           ELSE "Something went wrong!",
               timestamp |-> ToISOString(t)])

\* app.use('/api/*', ...): the number of leading segments of the URL the mount
\* pattern matches, 0 when it does not match. The wildcard takes all that follows.
ApiMountMatch(url) == IF Len(url) >= 2 /\ url[1] = "api" THEN Len(url) ELSE 0

\* req.path inside a mounted middleware: Express removes the matched part of the URL
ReqPath(url, matched) == SubSeq(url, matched + 1, Len(url))

\* the 404 handler for API routes
NotFoundHandler(url, t) ==
    Json(404, [error |-> "API endpoint not found",
               path |-> ReqPath(url, ApiMountMatch(url)),
               timestamp |-> ToISOString(t)])

\* Express's default answer when no middleware ends the request
FinalHandler(rq) ==
    Response(404, "text/html", [cannot |-> rq.method, path |-> rq.url])

\* cors() answering an OPTIONS request itself
CorsPreflight == Response(204, "none", Nil)

\* the error express.json() passes to next() for a body it cannot parse
BodyParseError == [message |-> "Unexpected end of JSON input", status |-> 400]

-----------------------------------------------------------------------------
(* Requests *)

Request(method, url, body) == [method |-> method, url |-> url, body |-> body]

Urls ==
    { <<"health">>, <<"api", "status">>, <<"api", "metrics">>, <<"api", "containers">>,
      <<"api", "system">>, <<"api", "doesnotexist">>, <<"index.html">> }

\* body: "none", "json" (a body JSON.parse accepts) or "badjson" (one it rejects)
Requests ==
    {Request("GET", u, "none") : u \in Urls}
    \cup {Request("OPTIONS", <<"api", "status">>, "none"),
          Request("POST", <<"api", "status">>, "badjson"),
          Request("POST", <<"api", "doesnotexist">>, "json")}

NodeEnvs == {"development", "production", "undefined"}

\* the app.get route a request matches, "none" when it matches none
Route(rq) ==
    IF rq.method # "GET" THEN "none"
    ELSE CASE rq.url = <<"health">> -> "health"
           [] rq.url = <<"api", "status">> -> "status"
           [] rq.url = <<"api", "metrics">> -> "metrics"
           [] rq.url = <<"api", "containers">> -> "containers"
           [] rq.url = <<"api", "system">> -> "system"
           [] OTHER -> "none"

\* app.use(cors()) ends the request; app.use(express.json()) passes an error on
EndedByCors(rq) == rq.method = "OPTIONS"
FailsBodyParse(rq) == ~EndedByCors(rq) /\ rq.body = "badjson"

\* the request reaches the third middleware, the one tracking requests
ReachesTracking(rq) == ~EndedByCors(rq) /\ ~FailsBodyParse(rq)

-----------------------------------------------------------------------------
(* State *)

Init ==
    /\ now = StartTime
    /\ serverMetrics = InitialMetrics(StartTime)
    /\ inflight = EmptyBag
    /\ accepted = 0
    /\ wire = Nil
    /\ fnIn = Nil
    /\ fnOut = Nil
    /\ ui = Nil

One(r) == SetToBag({r})

\* a request the tracking middleware did not see, and one it saw at time t
Untracked == [tracked |-> FALSE]
Tracked(t) == [tracked |-> TRUE, start |-> t]

\* a request waiting for the child process its handler started
Waiting(c, route) == [pc |-> "exec", route |-> route] @@ c

\* a request whose handler has ended having written `sent` responses; with none
\* written the request is never answered
Handled(c, sent) == [pc |-> IF sent = 0 THEN "hung" ELSE "sent", sent |-> sent] @@ c

\* what the step writes to the socket: the last response written, and with it
\* the request, the handler and what the handler read
Wire(rq, c, handler, written, seen) ==
    IF written = << >> THEN Nil
    ELSE [req |-> rq, tracked |-> c.tracked, handler |-> handler,
          res |-> written[Len(written)], seen |-> seen]

\* the handler of a newly received request ends in the same turn of the event loop
AnswerAtOnce(rq, c, handler, written, seen) ==
    /\ accepted < MaxRequests
    /\ accepted' = accepted + 1
    /\ inflight' = inflight (+) One(Handled(c, Len(written)))
    /\ wire' = Wire(rq, c, handler, written, seen)

\* the handler of a newly received request starts the child process and waits
StartWaiting(c, route) ==
    /\ accepted < MaxRequests
    /\ accepted' = accepted + 1
    /\ inflight' = inflight (+) One(Waiting(c, route))
    /\ wire' = Nil

\* the handler of the waiting request w ends
AnswerLater(w, rq, handler, written, seen) ==
    LET c == Tracked(w.start)
    IN  /\ inflight' = (inflight (-) One(w)) (+) One(Handled(c, Len(written)))
        /\ wire' = Wire(rq, c, handler, written, seen)
        /\ UNCHANGED accepted

-----------------------------------------------------------------------------
(* Arrival of a request: the middleware chain and the handler up to its first
   wait on the child process *)

\* cors() answers an OPTIONS request and ends it
Preflight(rq) ==
    /\ EndedByCors(rq)
    /\ AnswerAtOnce(rq, Untracked, "cors", <<CorsPreflight>>, [t |-> now])
    /\ UNCHANGED <<now, serverMetrics, fnIn, fnOut, ui>>

\* express.json() fails and calls next(err): the error handler answers, reading
\* process.env.NODE_ENV
BodyError(rq, env) ==
    /\ FailsBodyParse(rq)
    /\ AnswerAtOnce(rq, Untracked, "error", <<ErrorHandler(BodyParseError, env, now)>>,
                    [t |-> now, err |-> BodyParseError, env |-> env])
    /\ UNCHANGED <<now, serverMetrics, fnIn, fnOut, ui>>

GetHealth(rq, k1, k2, k3) ==
    /\ ReachesTracking(rq)
    /\ Route(rq) = "health"
    /\ serverMetrics' = TrackRequest(serverMetrics)
    /\ LET health == getSystemHealth(k1, k2, k3, now)
       IN  AnswerAtOnce(rq, Tracked(now), "health", HealthHandler(health),
                        [t |-> now, health |-> health])
    /\ UNCHANGED <<now, fnIn, fnOut, ui>>

GetSystem(rq, k1, k2, k3) ==
    /\ ReachesTracking(rq)
    /\ Route(rq) = "system"
    /\ serverMetrics' = TrackRequest(serverMetrics)
    /\ LET health == getSystemHealth(k1, k2, k3, now)
       IN  AnswerAtOnce(rq, Tracked(now), "system",
                        SystemHandler(health, serverMetrics', now),
                        [t |-> now, health |-> health])
    /\ UNCHANGED <<now, fnIn, fnOut, ui>>

\* GET /api/status, /api/metrics and /api/containers start the child process and
\* wait. GET /api/metrics samples the health before that, at the time kept as the
\* request's start; the three numbers it draws are chosen when they are used.
StartExec(rq) ==
    /\ ReachesTracking(rq)
    /\ Route(rq) \in {"status", "metrics", "containers"}
    /\ serverMetrics' = TrackRequest(serverMetrics)
    /\ StartWaiting(Tracked(now), Route(rq))
    /\ UNCHANGED <<now, fnIn, fnOut, ui>>

\* no route matches and the URL is under /api/: the 404 handler
ApiNotFound(rq) ==
    /\ ReachesTracking(rq)
    /\ Route(rq) = "none"
    /\ ApiMountMatch(rq.url) > 0
    /\ serverMetrics' = TrackRequest(serverMetrics)
    /\ AnswerAtOnce(rq, Tracked(now), "notfound", <<NotFoundHandler(rq.url, now)>>,
                    [t |-> now])
    /\ UNCHANGED <<now, fnIn, fnOut, ui>>

\* nothing matches: Express's final handler
NoRoute(rq) ==
    /\ ReachesTracking(rq)
    /\ Route(rq) = "none"
    /\ ApiMountMatch(rq.url) = 0
    /\ serverMetrics' = TrackRequest(serverMetrics)
    /\ AnswerAtOnce(rq, Tracked(now), "final", <<FinalHandler(rq)>>, [t |-> now])
    /\ UNCHANGED <<now, fnIn, fnOut, ui>>

-----------------------------------------------------------------------------
(* The child process ends: the rest of the handler *)

IsWaiting(w, route) == BagIn(w, inflight) /\ w.pc = "exec" /\ w.route = route

GetRequest(route) == Request("GET", <<"api", route>>, "none")

StatusDone(w, out, k1, k2, k3) ==
    /\ IsWaiting(w, "status")
    /\ LET dockerStatus == checkDockerStatus(out)
           health == getSystemHealth(k1, k2, k3, now)
       IN  AnswerLater(w, GetRequest("status"), "status",
                  IF dockerStatus.threw \/ health.threw THEN << >>
                  ELSE <<StatusResponse(dockerStatus.value, health.value, serverMetrics, now)>>,
                  [t |-> now, m |-> serverMetrics, exec |-> out,
                   dockerStatus |-> dockerStatus, health |-> health])
    /\ UNCHANGED <<now, serverMetrics, fnIn, fnOut, ui>>

MetricsDone(w, out, k1, k2, k3, k) ==
    /\ IsWaiting(w, "metrics")
    /\ LET health == getSystemHealth(k1, k2, k3, w.start)
           dockerStatus == checkDockerStatus(out)
       IN  AnswerLater(w, GetRequest("metrics"), "metrics",
                  IF dockerStatus.threw \/ health.threw THEN << >>
                  ELSE <<MetricsResponse(health.value, dockerStatus.value, serverMetrics, now, k)>>,
                  [t |-> now, m |-> serverMetrics, exec |-> out,
                   dockerStatus |-> dockerStatus, health |-> health, draw |-> k])
    /\ UNCHANGED <<now, serverMetrics, fnIn, fnOut, ui>>

ContainersDone(w, out) ==
    /\ IsWaiting(w, "containers")
    /\ AnswerLater(w, GetRequest("containers"), "containers", ContainersHandler(out, now),
                   [t |-> now, exec |-> out])
    /\ UNCHANGED <<now, serverMetrics, fnIn, fnOut, ui>>

-----------------------------------------------------------------------------
(* The response has been handed to the operating system: 'finish' *)

Finish(c) ==
    /\ BagIn(c, inflight)
    /\ c.pc = "sent"
    /\ serverMetrics' = IF c.tracked
                        THEN OnFinish(serverMetrics, c.start, now)
                        ELSE serverMetrics
    /\ inflight' = inflight (-) One(c)
    /\ wire' = Nil
    /\ UNCHANGED <<now, accepted, fnIn, fnOut, ui>>

\* wall-clock time passes
Tick ==
    /\ now < StartTime + MaxTicks * ClockStep
    /\ now' = now + ClockStep
    /\ wire' = Nil
    /\ UNCHANGED <<serverMetrics, inflight, accepted, fnIn, fnOut, ui>>

InFlight == BagToSet(inflight)

Next ==
    \/ \E rq \in Requests : Preflight(rq)
    \/ \E rq \in Requests, env \in NodeEnvs : BodyError(rq, env)
    \/ \E rq \in Requests, k1, k2, k3 \in RandDraws : GetHealth(rq, k1, k2, k3)
    \/ \E rq \in Requests, k1, k2, k3 \in RandDraws : GetSystem(rq, k1, k2, k3)
    \/ \E rq \in Requests : StartExec(rq)
    \/ \E rq \in Requests : ApiNotFound(rq)
    \/ \E rq \in Requests : NoRoute(rq)
    \/ \E w \in InFlight, out \in PsOutcomes, k1, k2, k3 \in RandDraws :
          StatusDone(w, out, k1, k2, k3)
    \/ \E w \in InFlight, out \in PsOutcomes, k1, k2, k3, k \in RandDraws :
          MetricsDone(w, out, k1, k2, k3, k)
    \/ \E w \in InFlight, out \in PsAOutcomes : ContainersDone(w, out)
    \/ \E c \in InFlight : Finish(c)
    \/ Tick

Spec == Init /\ [][Next]_vars

-----------------------------------------------------------------------------
(* The helpers applied in isolation: the argument is drawn at the start and one
   step applies the helper to it *)

Readings ==
    {Return([cpu |-> c, memory |-> m, disk |-> d]) :
        c \in {10, 39, 79, 80, 95}, m \in {30, 84, 85, 99}, d \in {20, 89, 90}}
    \cup {Throw(e) : e \in {"EACCES", "read failed"}}

Elapsed == {0, 1, ClockStep, 2 * ClockStep, 3 * ClockStep, MsPerHour, 2 * MsPerHour}

\* serverMetrics as it can be: no more responses timed than requests counted, and
\* no response time summed before a response was timed
MetricsValues ==
    {m \in [startTime : {StartTime}, requestCount : 0..3,
            totalResponseTime : {0, 1, 2, 3, 7, 10, 25}, responseTimeCount : 0..3] :
        /\ m.responseTimeCount <= m.requestCount
        /\ m.responseTimeCount = 0 => m.totalResponseTime = 0}

\* elapsed times around the minute and the hour, 45 and 90 minutes among them
UptimeElapsed ==
    {0, 1, MsPerMinute - 1, MsPerMinute, 45 * MsPerMinute, MsPerHour - 1, MsPerHour,
     90 * MsPerMinute, 2 * MsPerHour - 1, 2 * MsPerHour, 25 * MsPerHour + 59 * MsPerMinute}

FnInputs ==
    {[fn |-> "health", reading |-> r, t |-> StartTime] : r \in Readings}
    \cup {[fn |-> "requestsPerHour", requestCount |-> n, elapsed |-> e] :
             n \in 0..10, e \in Elapsed}
    \cup {[fn |-> "getAverageResponseTime", m |-> m] : m \in MetricsValues}
    \cup {[fn |-> "getUptime", elapsed |-> p[1], later |-> p[2]] :
             p \in {q \in UptimeElapsed \X UptimeElapsed : q[1] <= q[2]}}
    \cup {[fn |-> "uptimePercentage", k |-> k] : k \in 0..(RandDen - 1)}

InitFn ==
    /\ now = StartTime
    /\ serverMetrics = InitialMetrics(StartTime)
    /\ inflight = EmptyBag
    /\ accepted = 0
    /\ wire = Nil
    /\ fnIn \in FnInputs
    /\ fnOut = Nil
    /\ ui = Nil

\* getSystemHealth around a reading, and GET /health answering with its result
ApplyHealth ==
    /\ fnIn.fn = "health"
    /\ fnOut = Nil
    /\ LET health == HealthOf(fnIn.reading, fnIn.t)
       IN  fnOut' = [health |-> health, written |-> HealthHandler(health)]
    /\ UNCHANGED <<now, serverMetrics, inflight, accepted, wire, fnIn, ui>>

\* the requests-per-hour figure of GET /api/status and of GET /api/metrics
ApplyRequestsPerHour ==
    /\ fnIn.fn = "requestsPerHour"
    /\ fnOut = Nil
    /\ fnOut' = [status |-> ToLocaleString(StatusRequestsPerHour(fnIn.requestCount,
                                                                 fnIn.elapsed)),
                 metrics |-> MetricsRequestsPerHour(fnIn.requestCount, fnIn.elapsed)]
    /\ UNCHANGED <<now, serverMetrics, inflight, accepted, wire, fnIn, ui>>

ApplyAverageResponseTime ==
    /\ fnIn.fn = "getAverageResponseTime"
    /\ fnOut = Nil
    /\ fnOut' = [average |-> getAverageResponseTime(fnIn.m)]
    /\ UNCHANGED <<now, serverMetrics, inflight, accepted, wire, fnIn, ui>>

\* getUptime at two moments, the second not before the first
ApplyUptime ==
    /\ fnIn.fn = "getUptime"
    /\ fnOut = Nil
    /\ fnOut' = [first |-> getUptime(InitialMetrics(StartTime), StartTime + fnIn.elapsed),
                 second |-> getUptime(InitialMetrics(StartTime), StartTime + fnIn.later)]
    /\ UNCHANGED <<now, serverMetrics, inflight, accepted, wire, fnIn, ui>>

\* the uptime percentage of GET /api/metrics for one draw of Math.random()
ApplyUptimePercentage ==
    /\ fnIn.fn = "uptimePercentage"
    /\ fnOut = Nil
    /\ fnOut' = [percentageTenths |-> UptimePercentageTenths(fnIn.k)]
    /\ UNCHANGED <<now, serverMetrics, inflight, accepted, wire, fnIn, ui>>

NextFn ==
    \/ ApplyHealth
    \/ ApplyRequestsPerHour
    \/ ApplyAverageResponseTime
    \/ ApplyUptime
    \/ ApplyUptimePercentage

SpecFn == InitFn /\ [][NextFn]_vars

-----------------------------------------------------------------------------
(* The navigation of the page: src/frontend/js/main.js *)

\* window.innerWidth > 768 in handleResize
MobileBreakpoint == 768

\* window.scrollY > 50 in handleScroll
NavbarScrolledAbove == 50

\* scrollPos = window.scrollY + 100 in updateActiveNavOnScroll
ScrollSpyOffset == 100

\* document.querySelectorAll('section[id]'): the sections of the page
Sections ==
    {[id |-> "#home", offsetTop |-> 0, offsetHeight |-> 600],
     [id |-> "#about", offsetTop |-> 600, offsetHeight |-> 600]}

\* document.querySelector(targetId) finds an element
TargetExists(href) == \E sec \in Sections : sec.id = href

\* the href attributes of the elements of class nav-link
NavLinkHrefs == {"#home", "#about", "#contact"}

\* what a click can land on: whether #mobile-menu (navToggle) contains it, whether
\* #nav-menu (navMenu) contains it, and the href of the a[href^="#"] it is in,
\* "none" when it is in no such anchor. The toggle button is outside the menu
\* and outside every anchor.
ClickTargets ==
    {[el |-> "nav-toggle", inToggle |-> TRUE, inMenu |-> FALSE, href |-> "none"],
     [el |-> "nav-link-home", inToggle |-> FALSE, inMenu |-> TRUE, href |-> "#home"],
     [el |-> "nav-link-about", inToggle |-> FALSE, inMenu |-> TRUE, href |-> "#about"],
     [el |-> "nav-link-contact", inToggle |-> FALSE, inMenu |-> TRUE, href |-> "#contact"],
     [el |-> "nav-menu", inToggle |-> FALSE, inMenu |-> TRUE, href |-> "none"],
     [el |-> "hero-button", inToggle |-> FALSE, inMenu |-> FALSE, href |-> "#about"],
     [el |-> "footer-link", inToggle |-> FALSE, inMenu |-> FALSE, href |-> "#contact"],
     [el |-> "body", inToggle |-> FALSE, inMenu |-> FALSE, href |-> "none"]}

Keys == {"Escape", "Enter", "Tab"}
Widths == {480, MobileBreakpoint, MobileBreakpoint + 1, 1280}
ScrollYs == {0, NavbarScrolledAbove, NavbarScrolledAbove + 1, 500, 1100}

\* the page once the DockerWebServer object is constructed: init() sets
\* state.isMenuOpen to false and nothing has been dispatched yet
PageLoaded(width, activeLink) ==
    [isMenuOpen |-> FALSE,
     navMenuActive |-> FALSE,      \* #nav-menu has the class 'active'
     navToggleActive |-> FALSE,    \* #mobile-menu has the class 'active'
     bodyOverflow |-> "",          \* document.body.style.overflow
     innerWidth |-> width,
     scrollY |-> 0,
     navbarScrolled |-> FALSE,     \* #navbar has the class 'scrolled'
     activeLink |-> activeLink,    \* the href of the nav-links of class 'active'
     event |-> [type |-> "load"],  \* the event dispatched last
     toggled |-> 0]                \* calls of toggleMobileMenu while it was dispatched

\* the browser starts dispatching an event: the menu state before it is kept
BeginEvent(s, e) ==
    [s EXCEPT !.event = [before |-> s.isMenuOpen] @@ e, !.toggled = 0]

toggleMobileMenu(s) ==
    LET isMenuOpen == ~s.isMenuOpen
    IN  [s EXCEPT !.isMenuOpen = isMenuOpen,
                  !.navMenuActive = isMenuOpen,
                  !.navToggleActive = isMenuOpen,
                  !.bodyOverflow = IF isMenuOpen THEN "hidden" ELSE "",
                  !.toggled = @ + 1]

updateActiveNavLink(s, targetId) ==
    [s EXCEPT !.activeLink = IF targetId \in NavLinkHrefs THEN targetId ELSE "none"]

\* the listener of every a[href^="#"]; the scrolling window.scrollTo starts arrives
\* later as scroll events
handleSmoothScroll(s, href) ==
    IF TargetExists(href)
    THEN LET linked == updateActiveNavLink(s, href)
         IN  IF linked.isMenuOpen THEN toggleMobileMenu(linked) ELSE linked
    ELSE s

RECURSIVE ActivateSections(_, _, _)
\* sections.forEach(...) of updateActiveNavOnScroll
ActivateSections(s, sections, scrollPos) ==
    IF sections = {} THEN s
    ELSE LET sec == CHOOSE x \in sections : TRUE
             next == IF scrollPos >= sec.offsetTop
                        /\ scrollPos < sec.offsetTop + sec.offsetHeight
                     THEN updateActiveNavLink(s, sec.id)
                     ELSE s
         IN  ActivateSections(next, sections \ {sec}, scrollPos)

updateActiveNavOnScroll(s) == ActivateSections(s, Sections, s.scrollY + ScrollSpyOffset)

handleScroll(s) ==
    updateActiveNavOnScroll([s EXCEPT !.navbarScrolled = s.scrollY > NavbarScrolledAbove])

handleResize(s) ==
    IF s.innerWidth > MobileBreakpoint /\ s.isMenuOpen THEN toggleMobileMenu(s) ELSE s

\* an outside-click listener that does not look whether the toggle was clicked
handleOutsideClickAnywhereButMenu(s, target) ==
    IF s.isMenuOpen /\ ~target.inMenu THEN toggleMobileMenu(s) ELSE s

handleOutsideClick(s, target) ==
    IF s.isMenuOpen /\ ~target.inMenu /\ ~target.inToggle THEN toggleMobileMenu(s) ELSE s

handleKeydown(s, key) ==
    IF key = "Escape" /\ s.isMenuOpen THEN toggleMobileMenu(s) ELSE s

InitMenu ==
    /\ now = StartTime
    /\ serverMetrics = InitialMetrics(StartTime)
    /\ inflight = EmptyBag
    /\ accepted = 0
    /\ wire = Nil
    /\ fnIn = Nil
    /\ fnOut = Nil
    /\ \E w \in Widths, a \in NavLinkHrefs \cup {"none"} : ui = PageLoaded(w, a)

\* a click: the listeners run as the event bubbles from its target to the
\* document, the toggle's and the anchor's first, the document's last
Click(target) ==
    LET begun == BeginEvent(ui, [type |-> "click", target |-> target])
        onToggle == IF target.inToggle THEN toggleMobileMenu(begun) ELSE begun
        onAnchor == IF target.href # "none"
                    THEN handleSmoothScroll(onToggle, target.href)
                    ELSE onToggle
    IN  /\ ui' = handleOutsideClick(onAnchor, target)
        /\ UNCHANGED <<now, serverMetrics, inflight, accepted, wire, fnIn, fnOut>>

KeyDown(key) ==
    /\ ui' = handleKeydown(BeginEvent(ui, [type |-> "keydown", key |-> key]), key)
    /\ UNCHANGED <<now, serverMetrics, inflight, accepted, wire, fnIn, fnOut>>

\* the window is resized to another width
Resize(width) ==
    /\ width # ui.innerWidth
    /\ ui' = handleResize([BeginEvent(ui, [type |-> "resize", width |-> width])
                              EXCEPT !.innerWidth = width])
    /\ UNCHANGED <<now, serverMetrics, inflight, accepted, wire, fnIn, fnOut>>

\* the window is scrolled to another position
Scroll(y) ==
    /\ y # ui.scrollY
    /\ ui' = handleScroll([BeginEvent(ui, [type |-> "scroll", y |-> y])
                              EXCEPT !.scrollY = y])
    /\ UNCHANGED <<now, serverMetrics, inflight, accepted, wire, fnIn, fnOut>>

NextMenu ==
    \/ \E target \in ClickTargets : Click(target)
    \/ \E key \in Keys : KeyDown(key)
    \/ \E width \in Widths : Resize(width)
    \/ \E y \in ScrollYs : Scroll(y)

SpecMenu == InitMenu /\ [][NextMenu]_vars

-----------------------------------------------------------------------------
(* Request accounting *)

\* this step receives the request c
ArrivalOf(c) == accepted' = accepted + 1 /\ inflight' = inflight (+) One(c)

\* this step is the 'finish' event of the answered request c
FinishOf(c) == BagIn(c, inflight) /\ c.pc = "sent" /\ inflight' = inflight (-) One(c)

\* C1 as claimed: a request seen by the tracking middleware leaves requestCount
\* unchanged when it arrives, and its 'finish' event adds 1 to requestCount together
\* with the update of totalResponseTime and responseTimeCount.
C1_CountedOnFinish ==
    [][ /\ \A c \in BagToSet(inflight') :
              ArrivalOf(c) /\ c.tracked =>
                  serverMetrics'.requestCount = serverMetrics.requestCount
        /\ \A c \in InFlight :
              FinishOf(c) /\ c.tracked =>
                  /\ serverMetrics'.requestCount = serverMetrics.requestCount + 1
                  /\ serverMetrics'.responseTimeCount = serverMetrics.responseTimeCount + 1
                  /\ serverMetrics'.totalResponseTime =
                        serverMetrics.totalResponseTime + (now - c.start) ]_vars

\* C1 as amended: a request seen by the tracking middleware adds exactly 1 to
\* requestCount when it arrives and leaves the two response-time fields alone; its
\* 'finish' event adds the elapsed milliseconds to totalResponseTime and 1 to
\* responseTimeCount and leaves requestCount alone.
C1_CountedOnArrival ==
    [][ /\ \A c \in BagToSet(inflight') :
              ArrivalOf(c) /\ c.tracked =>
                  /\ c.start = now
                  /\ serverMetrics'.requestCount = serverMetrics.requestCount + 1
                  /\ serverMetrics'.responseTimeCount = serverMetrics.responseTimeCount
                  /\ serverMetrics'.totalResponseTime = serverMetrics.totalResponseTime
        /\ \A c \in InFlight :
              FinishOf(c) /\ c.tracked =>
                  /\ serverMetrics'.requestCount = serverMetrics.requestCount
                  /\ serverMetrics'.responseTimeCount = serverMetrics.responseTimeCount + 1
                  /\ serverMetrics'.totalResponseTime =
                        serverMetrics.totalResponseTime + (now - c.start) ]_vars

\* a tracked request has arrived and finished after time has passed
C1_Witness ==
    /\ serverMetrics.requestCount >= 1
    /\ serverMetrics.responseTimeCount >= 1
    /\ serverMetrics.totalResponseTime > 0

\* C2 as claimed: every request the server has received is counted in requestCount,
\* and no response is written for a request the tracking middleware did not see.
C2_EveryRequestCounted ==
    /\ serverMetrics.requestCount = accepted
    /\ wire # Nil => wire.tracked

\* C3: responseTimeCount <= requestCount in every state, and no step decreases
\* requestCount, responseTimeCount or totalResponseTime or changes startTime
\* (Date.now() taken as non-decreasing).
C3_CountersMonotone ==
    /\ [](serverMetrics.responseTimeCount <= serverMetrics.requestCount)
    /\ [](serverMetrics.startTime = StartTime)
    /\ [][ /\ serverMetrics'.requestCount >= serverMetrics.requestCount
           /\ serverMetrics'.responseTimeCount >= serverMetrics.responseTimeCount
           /\ serverMetrics'.totalResponseTime >= serverMetrics.totalResponseTime
           /\ serverMetrics'.startTime = serverMetrics.startTime ]_vars

\* one request has finished with a positive response time while another, also
\* counted, is still in flight
C3_Witness ==
    /\ serverMetrics.responseTimeCount >= 1
    /\ serverMetrics.requestCount > serverMetrics.responseTimeCount
    /\ serverMetrics.totalResponseTime > 0
    /\ \E c \in InFlight : c.tracked

-----------------------------------------------------------------------------
(* Health *)

FromHealth == fnOut # Nil /\ fnIn.fn = "health"

\* C4: GET /health writes one response; its code is 503 and its status string
\* "unhealthy" exactly when the sample's healthy flag is false, 200 and "healthy"
\* otherwise; its timestamp is the sample's and its details are the sample.
C4_HealthStatusCode ==
    FromHealth =>
        LET h == fnOut.health.value
            r == fnOut.written
        IN  /\ Len(r) = 1
            /\ r[1].ctype = "application/json"
            /\ r[1].code \in {200, 503}
            /\ r[1].code = 503 <=> h.healthy = FALSE
            /\ r[1].body.status = (IF r[1].code = 503 THEN "unhealthy" ELSE "healthy")
            /\ r[1].body.timestamp = h.timestamp
            /\ r[1].body.details = h

\* GET /health has answered 503 for an unhealthy sample
C4_Witness ==
    /\ FromHealth
    /\ ~fnIn.reading.threw
    /\ fnIn.reading.value.cpu >= 80
    /\ fnOut.written[1].code = 503
    /\ fnOut.written[1].body.status = "unhealthy"

\* C10: the sample built from three readings is healthy exactly when cpu < 80 and
\* memory < 85 and disk < 90; a reading that throws gives a sample, not an
\* exception, with healthy false, the error's message and a timestamp.
C10_HealthyThresholds ==
    FromHealth =>
        LET res == fnOut.health
            h == res.value
            reading == fnIn.reading
        IN  /\ ~res.threw
            /\ "healthy" \in DOMAIN h /\ "timestamp" \in DOMAIN h
            /\ h.timestamp = ToISOString(fnIn.t)
            /\ reading.threw =>
                  /\ h.healthy = FALSE
                  /\ "error" \in DOMAIN h
                  /\ h.error = reading.message
            /\ ~reading.threw =>
                  /\ h.healthy <=> /\ reading.value.cpu < 80
                                   /\ reading.value.memory < 85
                                   /\ reading.value.disk < 90
                  /\ h.cpu = reading.value.cpu
                  /\ h.memory = reading.value.memory
                  /\ h.disk = reading.value.disk

\* a sample at a threshold: cpu is exactly 80, memory and disk are below theirs,
\* and the sample is unhealthy
C10_Witness ==
    /\ FromHealth
    /\ ~fnIn.reading.threw
    /\ fnIn.reading.value.cpu = 80
    /\ fnIn.reading.value.memory < 85
    /\ fnIn.reading.value.disk < 90
    /\ fnOut.health.value.healthy = FALSE

-----------------------------------------------------------------------------
(* Container runtime *)

\* every request whose handler has ended was answered, and answered once
AnsweredOnce == \A c \in InFlight : c.pc \in {"sent", "hung"} => c.sent = 1

\* C5: when the child process of the summary query fails, checkDockerStatus returns
\* {running: false, containerCount: 0, containers: []} and does not throw, and
\* GET /api/status answers 200 with services.docker.status "offline" and
\* services.docker.containers 0.
C5_DockerFailureDegrades ==
    /\ AnsweredOnce
    /\ wire # Nil /\ wire.handler \in {"status", "metrics"} /\ ~wire.seen.exec.ok =>
          wire.seen.dockerStatus = Return(DockerDefault)
    /\ wire # Nil /\ wire.handler = "status" /\ ~wire.seen.exec.ok =>
          /\ wire.res.code = 200
          /\ wire.res.body.services.docker.status = "offline"
          /\ wire.res.body.services.docker.containers = 0

\* GET /api/status has answered after the child process failed
C5_Witness ==
    /\ wire # Nil
    /\ wire.handler = "status"
    /\ ~wire.seen.exec.ok
    /\ wire.res.code = 200

\* the non-blank lines of the output of docker ps -a
Listed(out) == SelectSeq(out.stdout, LineNotBlank)

\* the child process failed, or a listed line is no JSON text
Unparsable(out) ==
    \/ ~out.ok
    \/ \E k \in 1..Len(Listed(out)) : Listed(out)[k].kind = "text"

\* every listed line is the JSON text of an object
AllObjects(out) ==
    /\ out.ok
    /\ \A k \in 1..Len(Listed(out)) :
          Listed(out)[k].kind = "json" /\ Listed(out)[k].value.type = "object"

\* C6: GET /api/containers writes exactly one response. It is 500 with error,
\* message and timestamp when the child process fails or its output cannot be
\* parsed; when every line is a container record it is 200 with total the number
\* of listed containers and running the number whose State is "running".
C6_ContainersListing ==
    /\ AnsweredOnce
    /\ wire # Nil /\ wire.handler = "containers" =>
          LET out == wire.seen.exec
              body == wire.res.body
          IN  /\ wire.res.code \in {200, 500}
              /\ Unparsable(out) => wire.res.code = 500
              /\ AllObjects(out) => wire.res.code = 200
              /\ wire.res.code = 500 =>
                    {"error", "message", "timestamp"} \subseteq DOMAIN body
              /\ wire.res.code = 200 =>
                    /\ body.total = Len(Listed(out))
                    /\ body.running =
                          Cardinality({k \in 1..Len(Listed(out)) :
                                          Listed(out)[k].value.State = "running"})
                    /\ body.running <= body.total
                    /\ body.timestamp = ToISOString(wire.seen.t)

\* GET /api/containers has answered 500 for output that cannot be parsed
C6_Witness ==
    /\ wire # Nil
    /\ wire.handler = "containers"
    /\ wire.seen.exec.ok
    /\ Unparsable(wire.seen.exec)
    /\ wire.res.code = 500

-----------------------------------------------------------------------------
(* Routing and errors *)

\* C7 as claimed: an unmatched request under /api/ is answered 404 with the path
\* field equal to the full path requested.
C7_NotFoundFullPath ==
    wire # Nil /\ wire.handler = "notfound" =>
        /\ wire.res.code = 404
        /\ wire.res.body.path = wire.req.url

-----------------------------------------------------------------------------
(* Requests per hour *)

\* round(requestCount / max(elapsedHours, 0.1))
ClampedRequestsPerHour(requestCount, elapsed) ==
    Round(requestCount * MsPerHour, Max(elapsed, MsPerHour \div 10))

\* C9 as claimed: GET /api/status and GET /api/metrics both report
\* round(requestCount / max(elapsedHours, 0.1)).
C9_RequestsPerHourClamped ==
    /\ wire # Nil /\ wire.handler = "status" =>
          wire.res.body.metrics.requestsPerHour =
             ToLocaleString(ClampedRequestsPerHour(wire.seen.m.requestCount,
                                                   wire.seen.t - wire.seen.m.startTime))
    /\ wire # Nil /\ wire.handler = "metrics" =>
          wire.res.body.performance.requestsPerHour =
             ClampedRequestsPerHour(wire.seen.m.requestCount,
                                    wire.seen.t - wire.seen.m.startTime)

-----------------------------------------------------------------------------
(* Derived figures *)

\* C11: getAverageResponseTime is 0 whenever responseTimeCount is 0, whatever
\* requestCount is, and otherwise the integer nearest to
\* totalResponseTime / responseTimeCount, a half rounding up.
C11_AverageResponseTime ==
    fnOut # Nil /\ fnIn.fn = "getAverageResponseTime" =>
        LET m == fnIn.m
            a == fnOut.average
        IN  /\ m.responseTimeCount = 0 => a = 0
            /\ m.responseTimeCount > 0 =>
                  /\ 2 * a * m.responseTimeCount - m.responseTimeCount
                        <= 2 * m.totalResponseTime
                  /\ 2 * m.totalResponseTime
                        < 2 * a * m.responseTimeCount + m.responseTimeCount

\* requests have been counted, none has been timed, and the average is 0
C11_WitnessZero ==
    /\ fnOut # Nil /\ fnIn.fn = "getAverageResponseTime"
    /\ fnIn.m.requestCount > 0
    /\ fnIn.m.responseTimeCount = 0
    /\ fnOut.average = 0

\* the hour component of an uptime text, 0 when the text has none
HoursOf(u) == IF "hours" \in DOMAIN u THEN u.hours ELSE 0

\* the uptime text the claim gives for an elapsed time
UptimeText(elapsed) ==
    LET h == elapsed \div MsPerHour
        mins == (elapsed - h * MsPerHour) \div MsPerMinute
    IN  IF h > 0
        THEN [template |-> "{hours}h {minutes}m", hours |-> h, minutes |-> mins]
        ELSE [template |-> "{minutes}m", minutes |-> mins]

\* C12: getUptime gives "{hours}h {minutes}m" when at least an hour has elapsed and
\* "{minutes}m" otherwise, minutes being in 0..59; the hour component does not
\* decrease as the elapsed time grows; 90 minutes give "1h 30m", 45 minutes "45m".
C12_UptimeText ==
    fnOut # Nil /\ fnIn.fn = "getUptime" =>
        /\ fnOut.first = UptimeText(fnIn.elapsed)
        /\ fnOut.first.minutes \in 0..59
        /\ (fnOut.first.template = "{hours}h {minutes}m") <=> (fnIn.elapsed >= MsPerHour)
        /\ HoursOf(fnOut.first) <= HoursOf(fnOut.second)
        /\ fnIn.elapsed = 90 * MsPerMinute =>
              fnOut.first = [template |-> "{hours}h {minutes}m", hours |-> 1, minutes |-> 30]
        /\ fnIn.elapsed = 45 * MsPerMinute =>
              fnOut.first = [template |-> "{minutes}m", minutes |-> 45]

\* getUptime has given "1h 30m" for 90 minutes, and a later moment has a larger
\* hour component
C12_Witness ==
    /\ fnOut # Nil /\ fnIn.fn = "getUptime"
    /\ fnIn.elapsed = 90 * MsPerMinute
    /\ fnOut.first.hours = 1 /\ fnOut.first.minutes = 30
    /\ HoursOf(fnOut.second) > 1

\* C13: the uptime percentage GET /api/metrics reports, rounded to one decimal, is
\* at least 99.0 and at most 100.0 for every draw of Math.random().
C13_UptimePercentageRange ==
    fnOut # Nil /\ fnIn.fn = "uptimePercentage" =>
        /\ fnOut.percentageTenths >= 990
        /\ fnOut.percentageTenths <= 1000

\* the largest draw has given the lowest percentage, 99.0
C13_Witness ==
    /\ fnOut # Nil /\ fnIn.fn = "uptimePercentage"
    /\ fnIn.k = RandDen - 1
    /\ fnOut.percentageTenths = 990

-----------------------------------------------------------------------------
(* The envelope of the responses *)

\* C14: every response the server sends, on every path and for every outcome,
\* paths outside /api/ and /health included, is a JSON body with a timestamp field.
C14_EveryResponseJsonWithTimestamp ==
    wire # Nil =>
        /\ wire.res.ctype = "application/json"
        /\ "timestamp" \in DOMAIN wire.res.body

-----------------------------------------------------------------------------
(* Concurrent requests *)

-----------------------------------------------------------------------------
(* The simulated sampler *)

\* the sample a step read, when it read one
SampleSeen == IF wire # Nil /\ "health" \in DOMAIN wire.seen THEN {wire.seen.health} ELSE {}

\* C16: the sampler draws cpu from 10..39, memory from 30..69 and disk from 20..39,
\* so every sample is healthy: GET /health never answers 503 and GET /api/status
\* never reports services.healthCheck.status "degraded".
C16_SamplerAlwaysHealthy ==
    /\ \A h \in SampleSeen :
          /\ ~h.threw
          /\ h.value.cpu \in 10..39
          /\ h.value.memory \in 30..69
          /\ h.value.disk \in 20..39
          /\ h.value.healthy
    /\ wire # Nil /\ wire.handler = "health" =>
          /\ wire.res.code # 503
          /\ wire.res.body.status = "healthy"
    /\ wire # Nil /\ wire.handler = "status" =>
          wire.res.body.services.healthCheck.status # "degraded"
    /\ \A c \in InFlight : c.pc # "hung"

\* GET /health has answered 200 on the largest readings the sampler can draw
C16_Witness ==
    /\ wire # Nil /\ wire.handler = "health"
    /\ wire.seen.health.value.cpu = 39
    /\ wire.seen.health.value.memory = 69
    /\ wire.seen.health.value.disk = 39
    /\ wire.res.code = 200

-----------------------------------------------------------------------------
(* The mobile menu *)

\* the events the menu is closed after: a click outside the menu and the toggle,
\* a click on an anchor whose target exists, Escape, a resize above 768px
ClosesMenu(e) ==
    \/ e.type = "click" /\ ~e.target.inMenu /\ ~e.target.inToggle
    \/ e.type = "click" /\ e.target.href \in {"#home", "#about"}
    \/ e.type = "keydown" /\ e.key = "Escape"
    \/ e.type = "resize" /\ e.width > 768

\* C17: one user event changes isMenuOpen at most once whichever listeners fire for
\* it; a click on the toggle button flips it exactly once; a click outside the menu,
\* Escape, a resize above 768px and a click on an anchor whose target exists leave
\* the menu closed; after every event document.body.style.overflow is 'hidden'
\* exactly when isMenuOpen is true.
C17_MenuChangesOncePerEvent ==
    ui # Nil =>
        /\ ui.toggled <= 1
        /\ ui.event.type # "load" => (ui.toggled = 1 <=> ui.isMenuOpen # ui.event.before)
        /\ ui.event.type = "click" /\ ui.event.target.inToggle =>
              ui.toggled = 1 /\ ui.isMenuOpen = ~ui.event.before
        /\ ui.event.type # "load" /\ ClosesMenu(ui.event) => ~ui.isMenuOpen
        /\ (ui.bodyOverflow = "hidden") <=> ui.isMenuOpen

\* the menu was open, a click landed outside it, and it is closed with the
\* scroll lock released
C17_Witness ==
    /\ ui # Nil
    /\ ui.event.type = "click" /\ ui.event.target.el = "body"
    /\ ui.event.before
    /\ ~ui.isMenuOpen
    /\ ui.toggled = 1
    /\ ui.bodyOverflow = ""

====
